---- MODULE Spec2Model ----
(***************************************************************************)
(* Book catalogue REST backend (server.js): a JSON file holding the whole  *)
(* collection, read and rewritten in full by every request handler.        *)
(*                                                                         *)
(* Strings are sequences of one-character strings so that toLowerCase,     *)
(* trim, replace and includes are computed rather than assumed.  A request *)
(* body is a record holding exactly the fields the client sent; a field    *)
(* that is not in the record is undefined in the handler.                  *)
(***************************************************************************)
EXTENDS Integers, Sequences, FiniteSets, TLC

(***************************************************************************)
(* Bounds of the model.                                                    *)
(***************************************************************************)
\* number of requests served in one behaviour of the sequential server
MaxRequests == 2

\* the millisecond clock runs from 0 to MaxTime
MaxTime == 1

(***************************************************************************)
(* JavaScript values.                                                      *)
(***************************************************************************)
\* the JSON null stored for a missing year; no request carries this number
Null == -999999

\* new Date().getFullYear()
CurrentYear == 2026

WhiteSpace == {" ", "\t", "\n"}

Digits == {"0", "1", "2", "3", "4", "5", "6", "7", "8", "9"}

UpperCase ==
    <<"A","B","C","D","E","F","G","H","I","J","K","L","M",
      "N","O","P","Q","R","S","T","U","V","W","X","Y","Z">>

LowerCase ==
    <<"a","b","c","d","e","f","g","h","i","j","k","l","m",
      "n","o","p","q","r","s","t","u","v","w","x","y","z">>

SetMax(S) == CHOOSE m \in S : \A n \in S : n <= m

SetMin(S) == CHOOSE m \in S : \A n \in S : m <= n

Has(obj, f) == f \in DOMAIN obj

\* String.prototype.toLowerCase
toLowerCase(s) ==
    [i \in 1..Len(s) |->
        IF \E k \in 1..26 : UpperCase[k] = s[i]
        THEN LowerCase[CHOOSE k \in 1..26 : UpperCase[k] = s[i]]
        ELSE s[i]]

\* String.prototype.trim
trim(s) ==
    LET keep == {i \in 1..Len(s) : s[i] \notin WhiteSpace}
    IN  IF keep = {} THEN <<>> ELSE SubSeq(s, SetMin(keep), SetMax(keep))

\* String.prototype.includes
includes(s, sub) ==
    \E i \in 0..(Len(s) - Len(sub)) : SubSeq(s, i + 1, i + Len(sub)) = sub

\* isbn.replace(/[\s-]/g, '')
stripIsbn(s) == SelectSeq(s, LAMBDA c : c \notin (WhiteSpace \cup {"-"}))

\* /^[\d-]{10,17}$/.test(s)
isbnPattern(s) ==
    /\ Len(s) >= 10
    /\ Len(s) <= 17
    /\ \A i \in 1..Len(s) : s[i] \in (Digits \cup {"-"})

\* a string operand of !x, x && ..., x || ...: undefined and '' are falsy
TruthyStr(obj, f) == Has(obj, f) /\ obj[f] # <<>>

\* a number operand: undefined, null and 0 are falsy
TruthyNum(obj, f) == Has(obj, f) /\ obj[f] # Null /\ obj[f] # 0

(***************************************************************************)
(* Helper functions of server.js.                                          *)
(***************************************************************************)
\* bug: the smallest id no book holds
generateIdFirstFree(books) ==
    SetMin({id \in 1..(Len(books) + 1) :
               \A i \in 1..Len(books) : books[i].id # id})

\* bug: the next id taken from the length of the collection
generateIdFromLength(books) == Len(books) + 1

generateId(books) ==
    IF Len(books) > 0
    THEN SetMax({books[i].id : i \in 1..Len(books)}) + 1
    ELSE 1

titleErrors(book) ==
    IF ~TruthyStr(book, "title") \/ Len(trim(book.title)) = 0
    THEN <<"Title is required">> ELSE <<>>

authorErrors(book) ==
    IF ~TruthyStr(book, "author") \/ Len(trim(book.author)) = 0
    THEN <<"Author is required">> ELSE <<>>

\* bug: the lower limit excluded
yearErrorsExclusive(book) ==
    IF TruthyNum(book, "year")
       /\ (book.year <= 1000 \/ book.year > CurrentYear)
    THEN <<"Year must be between 1000 and current year">> ELSE <<>>

yearErrors(book) ==
    IF TruthyNum(book, "year")
       /\ (book.year < 1000 \/ book.year > CurrentYear)
    THEN <<"Year must be between 1000 and current year">> ELSE <<>>

isbnErrors(book) ==
    IF TruthyStr(book, "isbn") /\ ~isbnPattern(stripIsbn(book.isbn))
    THEN <<"Invalid ISBN format">> ELSE <<>>

validateBook(book) ==
    titleErrors(book) \o authorErrors(book) \o yearErrors(book)
        \o isbnErrors(book)

(***************************************************************************)
(* The collection written by initializeBooksData when books.json is        *)
(* missing; t is the time of the first start.                              *)
(***************************************************************************)
sampleBooks(t) ==
    <<
      [id |-> 1,
       title |->
         <<"T","o"," ","K","i","l","l"," ","a"," ","M","o","c","k","i","n",
           "g","b","i","r","d">>,
       author |->
         <<"H","a","r","p","e","r"," ","L","e","e">>,
       genre |->
         <<"F","i","c","t","i","o","n">>,
       year |-> 1960,
       description |->
         <<"A"," ","c","l","a","s","s","i","c"," ","n","o","v","e","l"," ",
           "a","b","o","u","t"," ","r","a","c","i","a","l"," ","i","n","j",
           "u","s","t","i","c","e"," ","a","n","d"," ","m","o","r","a","l",
           " ","g","r","o","w","t","h"," ","i","n"," ","t","h","e"," ","A",
           "m","e","r","i","c","a","n"," ","S","o","u","t","h",".">>,
       isbn |->
         <<"9","7","8","-","0","-","0","6","-","1","1","2","0","0","8","-","4">>,
       createdAt |-> t,
       updatedAt |-> t],
      [id |-> 2,
       title |->
         <<"1","9","8","4">>,
       author |->
         <<"G","e","o","r","g","e"," ","O","r","w","e","l","l">>,
       genre |->
         <<"S","c","i","e","n","c","e"," ","F","i","c","t","i","o","n">>,
       year |-> 1949,
       description |->
         <<"A"," ","d","y","s","t","o","p","i","a","n"," ","n","o","v","e",
           "l"," ","a","b","o","u","t"," ","t","o","t","a","l","i","t","a",
           "r","i","a","n","i","s","m"," ","a","n","d"," ","s","u","r","v",
           "e","i","l","l","a","n","c","e",".">>,
       isbn |->
         <<"9","7","8","-","0","-","4","5","2","-","2","8","4","2","3","-","4">>,
       createdAt |-> t,
       updatedAt |-> t],
      [id |-> 3,
       title |->
         <<"P","r","i","d","e"," ","a","n","d"," ","P","r","e","j","u","d",
           "i","c","e">>,
       author |->
         <<"J","a","n","e"," ","A","u","s","t","e","n">>,
       genre |->
         <<"R","o","m","a","n","c","e">>,
       year |-> 1813,
       description |->
         <<"A"," ","r","o","m","a","n","t","i","c"," ","n","o","v","e","l",
           " ","a","b","o","u","t"," ","E","l","i","z","a","b","e","t","h",
           " ","B","e","n","n","e","t"," ","a","n","d"," ","M","r","."," ",
           "D","a","r","c","y",".">>,
       isbn |->
         <<"9","7","8","-","0","-","1","4","-","1","4","3","9","5","1","-","8">>,
       createdAt |-> t,
       updatedAt |-> t],
      [id |-> 4,
       title |->
         <<"T","h","e"," ","G","r","e","a","t"," ","G","a","t","s","b","y">>,
       author |->
         <<"F","."," ","S","c","o","t","t"," ","F","i","t","z","g","e","r",
           "a","l","d">>,
       genre |->
         <<"F","i","c","t","i","o","n">>,
       year |-> 1925,
       description |->
         <<"A"," ","s","t","o","r","y"," ","o","f"," ","d","e","c","a","d",
           "e","n","c","e"," ","a","n","d"," ","e","x","c","e","s","s"," ",
           "i","n"," ","J","a","z","z"," ","A","g","e"," ","A","m","e","r",
           "i","c","a",".">>,
       isbn |->
         <<"9","7","8","-","0","-","7","4","3","2","-","7","3","5","6","-","5">>,
       createdAt |-> t,
       updatedAt |-> t]
    >>

(***************************************************************************)
(* State.                                                                  *)
(***************************************************************************)
VARIABLES
    booksFile,    \* the array stored in data/books.json
    fileOk,       \* books.json exists and parses as JSON
    now,          \* the clock read by new Date()
    nreq,         \* number of requests served so far
    req,          \* the request served last
    res,          \* its response
    deletedIds,   \* history: ids of the books deleted so far
    inflight      \* the requests being served concurrently

vars == <<booksFile, fileOk, now, nreq, req, res, deletedIds, inflight>>

readBooks == IF fileOk THEN booksFile ELSE <<>>

writeBooks(books) ==
    /\ booksFile' = books
    /\ fileOk' = TRUE

Ids(books) == {books[i].id : i \in 1..Len(books)}

\* books.find(book => same title and author, compared in lower case)
sameTitleAuthor(book, bookData) ==
    /\ toLowerCase(book.title) = toLowerCase(bookData.title)
    /\ toLowerCase(book.author) = toLowerCase(bookData.author)

\* bug: the duplicate check without toLowerCase
findDuplicateCaseSensitive(books, bookData) ==
    \E i \in 1..Len(books) :
        /\ books[i].title = bookData.title
        /\ books[i].author = bookData.author

findDuplicate(books, bookData) ==
    \E i \in 1..Len(books) : sameTitleAuthor(books[i], bookData)

findDuplicateExcept(books, bookId, bookData) ==
    \E i \in 1..Len(books) :
        books[i].id # bookId /\ sameTitleAuthor(books[i], bookData)

\* bug: the description stored as sent
bodyFieldsRawDescription(bookData) ==
    [title |-> trim(bookData.title),
     author |-> trim(bookData.author),
     genre |-> IF TruthyStr(bookData, "genre") THEN bookData.genre
               ELSE <<"O","t","h","e","r">>,
     year |-> IF TruthyNum(bookData, "year") THEN bookData.year ELSE Null,
     description |-> IF TruthyStr(bookData, "description")
                     THEN bookData.description ELSE <<>>,
     isbn |-> IF TruthyStr(bookData, "isbn") THEN trim(bookData.isbn)
              ELSE <<>>]

\* the fields both create and update take from the request body
bodyFields(bookData) ==
    [title |-> trim(bookData.title),
     author |-> trim(bookData.author),
     genre |-> IF TruthyStr(bookData, "genre") THEN bookData.genre
               ELSE <<"O","t","h","e","r">>,
     year |-> IF TruthyNum(bookData, "year") THEN bookData.year ELSE Null,
     description |-> IF TruthyStr(bookData, "description")
                     THEN trim(bookData.description) ELSE <<>>,
     isbn |-> IF TruthyStr(bookData, "isbn") THEN trim(bookData.isbn)
              ELSE <<>>]

newBook(books, bookData, t) ==
    [id |-> generateId(books), createdAt |-> t, updatedAt |-> t]
        @@ bodyFields(bookData)

\* bug: the request body spread over the stored book
updatedBookSpreadingBody(old, bookData, t) ==
    [updatedAt |-> t] @@ bodyFields(bookData) @@ bookData @@ old

\* {...books[bookIndex], title: ..., updatedAt: ...}
updatedBook(old, bookData, t) ==
    [id |-> old.id, createdAt |-> old.createdAt, updatedAt |-> t]
        @@ bodyFields(bookData)

\* books.findIndex(b => b.id === bookId); 0 stands for -1
findIndex(books, bookId) ==
    IF \E i \in 1..Len(books) : books[i].id = bookId
    THEN SetMin({i \in 1..Len(books) : books[i].id = bookId})
    ELSE 0

\* bug: books.splice(bookIndex), which removes the rest of the array
spliceToEnd(books, bookIndex) == SubSeq(books, 1, bookIndex - 1)

\* books.splice(bookIndex, 1)
splice(books, bookIndex) ==
    SubSeq(books, 1, bookIndex - 1) \o SubSeq(books, bookIndex + 1, Len(books))

\* parseInt(s): the longest prefix of decimal digits, NaN when there is none
RECURSIVE digitsValue(_)
digitsValue(s) ==
    IF s = <<>> THEN 0
    ELSE 10 * digitsValue(SubSeq(s, 1, Len(s) - 1))
         + (CHOOSE d \in 0..9 :
               <<"0","1","2","3","4","5","6","7","8","9">>[d + 1] = s[Len(s)])

parseInt(s) ==
    LET lead == {i \in 1..Len(s) : s[i] \notin WhiteSpace}
        from == IF lead = {} THEN Len(s) + 1 ELSE SetMin(lead)
        neg  == from <= Len(s) /\ s[from] = "-"
        first == IF from <= Len(s) /\ s[from] \in {"-", "+"}
                 THEN from + 1 ELSE from
        stop == {i \in first..Len(s) : s[i] \notin Digits}
        last == IF stop = {} THEN Len(s) ELSE SetMin(stop) - 1
    IN  IF last < first THEN [nan |-> TRUE, val |-> 0]
        ELSE [nan |-> FALSE,
              val |-> (IF neg THEN -1 ELSE 1)
                      * digitsValue(SubSeq(s, first, last))]

(***************************************************************************)
(* GET /api/books: filters and pagination.                                 *)
(***************************************************************************)
\* a query parameter is a string; undefined and '' are falsy
matchesSearch(book, search) ==
    LET searchLower == toLowerCase(search)
    IN  \/ includes(toLowerCase(book.title), searchLower)
        \/ includes(toLowerCase(book.author), searchLower)
        \/ includes(toLowerCase(book.genre), searchLower)
        \/ /\ book.description # <<>>
           /\ includes(toLowerCase(book.description), searchLower)

\* book.year == year, a number (or null) against the query string: the
\* string is converted to a number, and null equals no string
looseYearEquals(book, year) ==
    LET s == trim(year)
    IN  /\ book.year # Null
        /\ s # <<>>
        /\ \A i \in 1..Len(s) : s[i] \in Digits
        /\ digitsValue(s) = book.year

\* Array.prototype.slice(start, end) with integer arguments
slice(seq, start, end) ==
    LET n == Len(seq)
        rel(k) == IF k < 0 THEN (IF n + k < 0 THEN 0 ELSE n + k)
                  ELSE (IF k > n THEN n ELSE k)
    IN  SubSeq(seq, rel(start) + 1, rel(end))

filterBooks(books, query) ==
    LET bySearch == IF TruthyStr(query, "search")
                    THEN SelectSeq(books,
                             LAMBDA b : matchesSearch(b, query.search))
                    ELSE books
        byGenre == IF TruthyStr(query, "genre")
                   THEN SelectSeq(bySearch, LAMBDA b : b.genre = query.genre)
                   ELSE bySearch
        byYear == IF TruthyStr(query, "year")
                  THEN SelectSeq(byGenre,
                           LAMBDA b : looseYearEquals(b, query.year))
                  ELSE byGenre
    IN  IF TruthyStr(query, "author")
        THEN SelectSeq(byYear,
                 LAMBDA b : includes(toLowerCase(b.author),
                                     toLowerCase(query.author)))
        ELSE byYear

\* bug: the limit taken as the end of the slice
paginateLimitAsEnd(filteredBooks, query) ==
    IF TruthyStr(query, "limit")
    THEN LET limitNum == parseInt(query.limit)
             offsetParsed == IF Has(query, "offset") THEN parseInt(query.offset)
                             ELSE [nan |-> TRUE, val |-> 0]
             offsetNum == IF offsetParsed.nan THEN 0 ELSE offsetParsed.val
         IN  slice(filteredBooks, offsetNum,
                   IF limitNum.nan THEN 0 ELSE limitNum.val)
    ELSE filteredBooks

paginate(filteredBooks, query) ==
    IF TruthyStr(query, "limit")
    THEN LET limitNum == parseInt(query.limit)
             offsetParsed == IF Has(query, "offset") THEN parseInt(query.offset)
                             ELSE [nan |-> TRUE, val |-> 0]
             offsetNum == IF offsetParsed.nan THEN 0 ELSE offsetParsed.val
         IN  \* slice treats a NaN end as 0
             slice(filteredBooks, offsetNum,
                   IF limitNum.nan THEN 0 ELSE offsetNum + limitNum.val)
    ELSE filteredBooks

getBooks(books, query) ==
    LET filteredBooks == filterBooks(books, query)
        page == paginate(filteredBooks, query)
    IN  [status |-> 200,
         body |-> [books |-> page, total |-> Len(filteredBooks),
                   count |-> Len(page)]]

\* GET /api/books/:id
getBook(books, idParam) ==
    LET bookId == parseInt(idParam)
        bookIndex == IF bookId.nan THEN 0 ELSE findIndex(books, bookId.val)
    IN  IF bookIndex = 0
        THEN [status |-> 404, body |-> [error |-> "Book not found"]]
        ELSE [status |-> 200, body |-> books[bookIndex]]

(***************************************************************************)
(* The mutating handlers, as functions of the collection read, the request *)
(* and the clock.  Each yields the response, whether the handler writes,   *)
(* and the collection it writes.                                           *)
(***************************************************************************)
Reply(status, body, wrote, books) ==
    [res |-> [status |-> status, body |-> body], wrote |-> wrote,
     books |-> books]

DuplicateMessage == "Book with same title and author already exists"

\* POST /api/books after validation
createBook(books, bookData, t) ==
    IF findDuplicate(books, bookData)
    THEN Reply(400, [error |-> DuplicateMessage], FALSE, books)
    ELSE LET book == newBook(books, bookData, t)
         IN  Reply(201, book, TRUE, Append(books, book))

\* PUT /api/books/:id after validation
updateBook(books, idParam, bookData, t) ==
    LET bookId == parseInt(idParam)
        bookIndex == IF bookId.nan THEN 0 ELSE findIndex(books, bookId.val)
    IN  IF bookIndex = 0
        THEN Reply(404, [error |-> "Book not found"], FALSE, books)
        ELSE IF findDuplicateExcept(books, bookId.val, bookData)
        THEN Reply(400, [error |-> DuplicateMessage], FALSE, books)
        ELSE LET book == updatedBook(books[bookIndex], bookData, t)
             IN  Reply(200, book, TRUE,
                       [books EXCEPT ![bookIndex] = book])

\* DELETE /api/books/:id
deleteBook(books, idParam) ==
    LET bookId == parseInt(idParam)
        bookIndex == IF bookId.nan THEN 0 ELSE findIndex(books, bookId.val)
    IN  IF bookIndex = 0
        THEN Reply(404, [error |-> "Book not found"], FALSE, books)
        ELSE Reply(200,
                   [message |-> "Book deleted successfully",
                    book |-> books[bookIndex]],
                   TRUE, splice(books, bookIndex))

\* POST /api/books/bulk: the loop over booksData[i..], with the growing
\* collection and the results so far
RECURSIVE bulkLoop(_, _, _, _, _)
bulkLoop(books, booksData, i, results, t) ==
    IF i > Len(booksData) THEN [books |-> books, results |-> results]
    ELSE
      LET bookData == booksData[i]
          errors == validateBook(bookData)
      IN  IF Len(errors) > 0
          THEN bulkLoop(books, booksData, i + 1,
                   [results EXCEPT !.errors =
                        Append(@, [index |-> i - 1, errors |-> errors])], t)
          ELSE IF findDuplicate(books, bookData)
          THEN bulkLoop(books, booksData, i + 1,
                   [results EXCEPT !.errors =
                        Append(@, [index |-> i - 1,
                                   errors |-> <<DuplicateMessage>>])], t)
          ELSE LET book == newBook(books, bookData, t)
               IN  bulkLoop(Append(books, book), booksData, i + 1,
                       [results EXCEPT !.success = Append(@, book)], t)

bulkCreate(books, booksData, t) ==
    LET out == bulkLoop(books, booksData, 1,
                        [success |-> <<>>, errors |-> <<>>], t)
    IN  Reply(201, out.results, Len(out.results.success) > 0, out.books)

(***************************************************************************)
(* Requests the clients send.                                              *)
(***************************************************************************)
NoFields == [f \in {} |-> <<>>]

Str1984 == <<"1","9","8","4">>

StrDune == <<"D","u","n","e">>

StrOrwell == <<"G","e","o","r","g","e"," ","O","r","w","e","l","l">>

StrFiction == <<"F","i","c","t","i","o","n">>

StrIsbn13 == <<"9","7","8","0","4","4","1","0","1","3","5","9","3">>

\* title and author: the pair of the seeded book 2, the same in another
\* letter case, the same with surrounding white space, a new pair
ValidTitleAuthorInputs ==
    {[title |-> Str1984, author |-> StrOrwell],
     [title |-> Str1984,
      author |-> <<"G","E","O","R","G","E"," ","O","R","W","E","L","L">>],
     [title |-> <<" ">> \o Str1984, author |-> StrOrwell \o <<" ">>],
     [title |-> StrDune, author |-> StrOrwell]}

InvalidTitleAuthorInputs ==
    {[author |-> StrOrwell],
     [title |-> StrDune, author |-> <<" ", " ">>]}

\* the other fields: none, all of them (with an id and a createdAt the
\* server must not take), all of them falsy
ValidOtherInputs ==
    {NoFields,
     [genre |-> StrFiction, year |-> 1965,
      description |-> <<" ","A"," ","p","l","a","n","e","t","."," ">>,
      isbn |-> <<" ">> \o StrIsbn13, id |-> 99, createdAt |-> MaxTime + 1],
     [genre |-> <<>>, year |-> 0, description |-> <<>>, isbn |-> <<>>]}

\* bodies that fail validation: no title, a blank author, and the pair of
\* the seeded book 2 with a year out of range
InvalidBookInputs ==
    InvalidTitleAuthorInputs
        \cup {[title |-> Str1984, author |-> StrOrwell, year |-> 999]}

BookInputs ==
    {ta @@ o : ta \in ValidTitleAuthorInputs, o \in ValidOtherInputs}
        \cup InvalidBookInputs

\* PUT bodies: every valid pair with all the other fields, the pair of the
\* seeded book 2 alone, and a body without title
UpdateInputs ==
    {b \in BookInputs : Has(b, "id")}
        \cup {[title |-> Str1984, author |-> StrOrwell],
              [author |-> StrOrwell]}

\* the seeded books 2 and 3 (3 is also the first id handed out when only
\* book 2 is left), and a path that is not a number
IdInputs == {<<"2">>, <<"3">>, <<"x">>}

QueryInputs ==
    {NoFields,
     [search |-> <<"O","R","W">>, limit |-> <<"0">>],
     [genre |-> StrFiction, limit |-> <<"1">>, offset |-> <<"1">>],
     [year |-> <<"1","9","4","9">>, author |-> <<"o","r","w","e","l","l">>]}

\* bulk bodies: no array; batches of a new book, a second one whose title
\* differs by its letter case and a trailing blank, and a candidate without
\* title
BulkBookA == [title |-> StrDune, author |-> StrOrwell]

BulkBookB ==
    [title |-> <<"D","U","N","E"," ">>, author |-> StrOrwell, year |-> 1965]

BulkBookInvalid == [author |-> StrOrwell]

BulkInputs ==
    {NoFields} \cup
    {[books |-> bs] : bs \in {<<>>, <<BulkBookA>>, <<BulkBookA, BulkBookB>>,
                              <<BulkBookA, BulkBookA>>,
                              <<BulkBookInvalid, BulkBookB>>}}

(***************************************************************************)
(* The server handling one request at a time: every action is one handler  *)
(* run from the request to the response.                                   *)
(***************************************************************************)
\* the collections the file can hold when the server starts serving: the
\* seed, or what is left of it after some of its books were deleted
StartKeeps == {1..4, {2}}

NoRequest == [op |-> "none"]

NoResponse == [status |-> 0, body |-> NoFields]

Idle == [pc |-> "idle", body |-> NoFields, base |-> <<>>, books |-> <<>>,
         res |-> NoResponse, readAfter |-> 0, wroteAs |-> 0]

Init ==
    /\ \E keep \in StartKeeps :
          /\ booksFile = SelectSeq(sampleBooks(0), LAMBDA b : b.id \in keep)
          /\ deletedIds = (1..4) \ keep
    /\ fileOk = TRUE
    /\ now = 0
    /\ nreq = 0
    /\ req = NoRequest
    /\ res = NoResponse
    /\ inflight = <<>>

\* the tail of every handler: send the response, write the file if it does
Serve(request, out) ==
    /\ nreq < MaxRequests
    /\ nreq' = nreq + 1
    /\ req' = request
    /\ res' = out.res
    /\ IF out.wrote THEN writeBooks(out.books)
       ELSE UNCHANGED <<booksFile, fileOk>>
    /\ UNCHANGED <<now, inflight>>

Invalid(errors) == Reply(400, [errors |-> errors], FALSE, <<>>)

GetBooks(query) ==
    /\ Serve([op |-> "GET /api/books", query |-> query],
             [res |-> getBooks(readBooks, query), wrote |-> FALSE,
              books |-> <<>>])
    /\ UNCHANGED deletedIds

GetBook(idParam) ==
    /\ Serve([op |-> "GET /api/books/:id", id |-> idParam],
             [res |-> getBook(readBooks, idParam), wrote |-> FALSE,
              books |-> <<>>])
    /\ UNCHANGED deletedIds

CreateBook(bookData) ==
    /\ LET errors == validateBook(bookData)
       IN  Serve([op |-> "POST /api/books", body |-> bookData],
                 IF Len(errors) > 0 THEN Invalid(errors)
                 ELSE createBook(readBooks, bookData, now))
    /\ UNCHANGED deletedIds

UpdateBook(idParam, bookData) ==
    /\ LET errors == validateBook(bookData)
       IN  Serve([op |-> "PUT /api/books/:id", id |-> idParam,
                  body |-> bookData],
                 IF Len(errors) > 0 THEN Invalid(errors)
                 ELSE updateBook(readBooks, idParam, bookData, now))
    /\ UNCHANGED deletedIds

DeleteBook(idParam) ==
    LET out == deleteBook(readBooks, idParam)
    IN  /\ Serve([op |-> "DELETE /api/books/:id", id |-> idParam], out)
        /\ deletedIds' = IF out.wrote
                         THEN deletedIds \cup {out.res.body.book.id}
                         ELSE deletedIds

BulkCreate(body) ==
    /\ Serve([op |-> "POST /api/books/bulk", body |-> body],
             IF ~Has(body, "books")
             THEN Reply(400, [error |-> "Books data must be an array"],
                        FALSE, <<>>)
             ELSE bulkCreate(readBooks, body.books, now))
    /\ UNCHANGED deletedIds

\* a millisecond passes while requests are still to come
Tick ==
    /\ now < MaxTime
    /\ nreq < MaxRequests
    /\ now' = now + 1
    /\ UNCHANGED <<booksFile, fileOk, nreq, req, res, deletedIds, inflight>>

Next ==
    \/ \E query \in QueryInputs : GetBooks(query)
    \/ \E idParam \in IdInputs : GetBook(idParam)
    \/ \E bookData \in BookInputs : CreateBook(bookData)
    \/ \E idParam \in IdInputs, bookData \in UpdateInputs :
          UpdateBook(idParam, bookData)
    \/ \E idParam \in IdInputs : DeleteBook(idParam)
    \/ \E body \in BulkInputs : BulkCreate(body)
    \/ Tick

Spec == Init /\ [][Next]_vars

(***************************************************************************)
(* Concurrent requests.  A handler runs without interruption between two   *)
(* awaits, so POST /api/books is three steps: validation up to the call of *)
(* readBooks; the read and everything up to the call of writeBooks; the    *)
(* write and the response.                                                 *)
(***************************************************************************)
MaxClients == 2

Clients == 1..MaxClients

ConcurrentInputs ==
    {BulkBookA, BulkBookB, BulkBookInvalid,
     [title |-> Str1984, author |-> StrOrwell]}

\* number of writes of books.json completed so far
Writes == Cardinality({c \in Clients : inflight[c].wroteAs > 0})

InitConcurrent ==
    /\ \E keep \in StartKeeps :
          /\ booksFile = SelectSeq(sampleBooks(0), LAMBDA b : b.id \in keep)
          /\ deletedIds = (1..4) \ keep
    /\ fileOk = TRUE
    /\ now = 0
    /\ nreq = 0
    /\ req = NoRequest
    /\ res = NoResponse
    /\ inflight = [c \in Clients |-> Idle]

CreateBegin(c, bookData) ==
    /\ inflight[c].pc = "idle"
    /\ LET errors == validateBook(bookData)
       IN  inflight' = [inflight EXCEPT ![c] =
               IF Len(errors) > 0
               THEN [@ EXCEPT !.pc = "done", !.body = bookData,
                              !.res = Invalid(errors).res]
               ELSE [@ EXCEPT !.pc = "reading", !.body = bookData]]
    /\ UNCHANGED <<booksFile, fileOk, now, nreq, req, res, deletedIds>>

CreateRead(c) ==
    /\ inflight[c].pc = "reading"
    /\ LET books == readBooks
           out == createBook(books, inflight[c].body, now)
       IN  inflight' = [inflight EXCEPT ![c] =
               [@ EXCEPT !.pc = IF out.wrote THEN "writing" ELSE "done",
                         !.base = books, !.books = out.books,
                         !.res = out.res, !.readAfter = Writes]]
    /\ UNCHANGED <<booksFile, fileOk, now, nreq, req, res, deletedIds>>

\* a write that adds the new book to what the file holds at that moment
CreateWriteAppending(c) ==
    /\ inflight[c].pc = "writing"
    /\ writeBooks(Append(readBooks, inflight[c].res.body))
    /\ inflight' = [inflight EXCEPT ![c] =
            [@ EXCEPT !.pc = "done", !.wroteAs = Writes + 1]]
    /\ UNCHANGED <<now, nreq, req, res, deletedIds>>

CreateWrite(c) ==
    /\ inflight[c].pc = "writing"
    /\ writeBooks(inflight[c].books)
    /\ inflight' = [inflight EXCEPT ![c] =
            [@ EXCEPT !.pc = "done", !.wroteAs = Writes + 1]]
    /\ UNCHANGED <<now, nreq, req, res, deletedIds>>

NextConcurrent ==
    \/ \E c \in Clients, bookData \in ConcurrentInputs :
          CreateBegin(c, bookData)
    \/ \E c \in Clients : CreateRead(c)
    \/ \E c \in Clients : CreateWrite(c)
    \/ Tick

SpecConcurrent == InitConcurrent /\ [][NextConcurrent]_vars

(***************************************************************************)
(* validateBook on its own: a candidate is drawn, then validated.          *)
(***************************************************************************)
Digits9 == <<"1","2","3","4","5","6","7","8","9">>

ValidateTitleInputs ==
    {NoFields, [title |-> <<>>], [title |-> <<" ", "\t">>],
     [title |-> <<"a">>], [title |-> <<" ", "a", " ">>]}

ValidateAuthorInputs ==
    {NoFields, [author |-> <<>>], [author |-> <<" ">>], [author |-> <<"b">>]}

ValidateYearInputs ==
    {NoFields} \cup
    {[year |-> y] : y \in {Null, 0, -5, 1, 999, 1000, 1001, CurrentYear - 1,
                           CurrentYear, CurrentYear + 1}}

ValidateIsbnInputs ==
    {NoFields} \cup
    {[isbn |-> s] : s \in
        {<<>>,
         <<" ">>,
         Digits9,
         Digits9 \o <<"-">>,
         Digits9 \o <<"0">>,
         <<" ">> \o Digits9 \o <<"-", "0", " ">>,
         Digits9 \o <<"X">>,
         Digits9 \o Digits9 \o <<"-">>,
         Digits9 \o <<"-", "-", " ">> \o SubSeq(Digits9, 1, 8),
         Digits9 \o Digits9,
         SubSeq(Digits9, 1, 8) \o <<"a">> \o SubSeq(Digits9, 1, 8)}}

ValidateInputs ==
    {t @@ a @@ y @@ i : t \in ValidateTitleInputs, a \in ValidateAuthorInputs,
                        y \in ValidateYearInputs, i \in ValidateIsbnInputs}

InitValidate ==
    /\ booksFile = sampleBooks(0)
    /\ deletedIds = {}
    /\ fileOk = TRUE
    /\ now = 0
    /\ nreq = 0
    /\ req \in {[op |-> "validateBook", body |-> book] :
                   book \in ValidateInputs}
    /\ res = NoResponse
    /\ inflight = <<>>

Validate ==
    /\ req.op = "validateBook"
    /\ res = NoResponse
    /\ res' = [status |-> 0, body |-> [errors |-> validateBook(req.body)]]
    /\ UNCHANGED <<booksFile, fileOk, now, nreq, req, deletedIds, inflight>>

NextValidate == Validate

SpecValidate == InitValidate /\ [][NextValidate]_vars

(***************************************************************************)
(* Properties.                                                             *)
(***************************************************************************)
\* the step serves one request of the given kind
Served(op) == nreq' = nreq + 1 /\ req'.op = op

\* the same title and author, compared case-insensitively
SamePair(a, b) ==
    /\ toLowerCase(a.title) = toLowerCase(b.title)
    /\ toLowerCase(a.author) = toLowerCase(b.author)

\* the ids of the books a step adds to the file
CreatedIds == Ids(booksFile') \ Ids(booksFile)

IsMaxPlusOne(id, ids) ==
    IF ids = {} THEN id = 1
    ELSE /\ id - 1 \in ids
         /\ \A other \in ids : other < id

\* C1: after any sequence of create, update, bulk-create and delete requests
\* served one at a time, no two books of the file have the same title and
\* author compared case-insensitively.
C1_NoDuplicatePairs ==
    \A i, j \in 1..Len(booksFile) :
        i # j => ~SamePair(booksFile[i], booksFile[j])

\* the ids of the file are pairwise distinct
C2_DistinctIds ==
    \A i, j \in 1..Len(booksFile) :
        i # j => booksFile[i].id # booksFile[j].id

\* the ids a create or bulk-create step hands out
C2_Allocation ==
    /\ Served("POST /api/books") /\ res'.status = 201
          => /\ IsMaxPlusOne(res'.body.id, Ids(booksFile))
             /\ booksFile' = Append(booksFile, res'.body)
    /\ Served("POST /api/books/bulk") /\ res'.status = 201
          => LET success == res'.body.success
             IN  /\ booksFile' = booksFile \o success
                 /\ \A k \in 1..Len(success) :
                        IsMaxPlusOne(success[k].id,
                            Ids(booksFile \o SubSeq(success, 1, k - 1)))

\* C2: the books of the file have pairwise distinct ids, and every book a
\* create or bulk-create request adds gets id 1 when the collection is empty
\* and the largest id present plus one otherwise.
C2_UniqueIdsMaxPlusOne == []C2_DistinctIds /\ [][C2_Allocation]_vars

\* a book was created with id 1 in a collection emptied by a delete
C2_Witness ==
    /\ req.op = "POST /api/books"
    /\ res.status = 201
    /\ res.body.id = 1
    /\ booksFile = <<res.body>>
    /\ deletedIds # {}

\* what a step must satisfy for C3_LostUpdate
C3_SecondWriteOverwrites ==
    \A first, second \in Clients :
        /\ first # second
        /\ inflight[first].pc = "done"
        /\ inflight[first].wroteAs > 0
        /\ inflight[first].readAfter = 0
        /\ inflight[second].pc = "writing"
        /\ inflight[second].readAfter = 0
        /\ inflight'[second].pc = "done"
        => /\ inflight[first].res.status = 201
           /\ inflight'[second].res.status = 201
           /\ inflight[first].base = inflight[second].base
           /\ booksFile' =
                 Append(inflight[second].base, inflight'[second].res.body)
           /\ inflight[first].res.body # inflight'[second].res.body
                 => \A i \in 1..Len(booksFile') :
                        booksFile'[i] # inflight[first].res.body

\* C3: when two create requests both read books.json before either writes
\* it, both are answered 201, but after the second write the file holds the
\* collection they read plus the second writer's book only: the first
\* writer's acknowledged book is gone.
C3_LostUpdate == [][C3_SecondWriteOverwrites]_vars

\* both creates were answered 201 for different books after reading the same
\* file, and the file holds one book more than they read: the second's
C3_Witness ==
    /\ inflight # <<>>
    /\ \E first, second \in Clients :
          /\ inflight[first].pc = "done"
          /\ inflight[second].pc = "done"
          /\ inflight[first].wroteAs = 1
          /\ inflight[second].wroteAs = 2
          /\ inflight[first].readAfter = 0
          /\ inflight[second].readAfter = 0
          /\ inflight[first].res.status = 201
          /\ inflight[second].res.status = 201
          /\ inflight[first].res.body.title # inflight[second].res.body.title
          /\ booksFile = Append(inflight[first].base, inflight[second].res.body)

\* C4: once a book with id i has been deleted, no later create or
\* bulk-create request gives id i to a new book; as every id still in use is
\* removed from the file by its deletion, this says that no book of the file
\* has a deleted id.
C4_NoDeletedIdInUse ==
    \A i \in 1..Len(booksFile) : booksFile[i].id \notin deletedIds

\* what a step must satisfy for C4_DeletedIdReusedOnlyAsMax
C4_ReuseOnlyAboveAll ==
    Served("POST /api/books") \/ Served("POST /api/books/bulk")
        => \A id \in CreatedIds \cap deletedIds :
               \A other \in Ids(booksFile) : other < id

\* C4 as amended: a create or bulk-create request gives the id of a deleted
\* book to a new book only when every book in the collection at that time
\* has a smaller id.
C4_DeletedIdReusedOnlyAsMax == [][C4_ReuseOnlyAboveAll]_vars

\* a new book holds the id of a deleted one while older books remain
C4_Witness ==
    /\ req.op = "POST /api/books"
    /\ res.status = 201
    /\ res.body.id \in deletedIds
    /\ Len(booksFile) > 1

\* the decimal digits of a natural number, as the client writes an id into
\* the path of a request
RECURSIVE numberToString(_)
numberToString(n) ==
    LET digit == <<"0","1","2","3","4","5","6","7","8","9">>[(n % 10) + 1]
    IN  IF n < 10 THEN <<digit>>
        ELSE Append(numberToString(n \div 10), digit)

InputFields == {"title", "author", "genre", "year", "description", "isbn"}

\* x is s without its leading and trailing white space
IsTrimOf(x, s) ==
    /\ x # <<>> => x[1] \notin WhiteSpace /\ x[Len(x)] \notin WhiteSpace
    /\ \E lead \in 0..(Len(s) - Len(x)) :
          /\ SubSeq(s, lead + 1, lead + Len(x)) = x
          /\ \A k \in 1..Len(s) :
                k <= lead \/ k > lead + Len(x) => s[k] \in WhiteSpace

\* the response to GET /api/books/:id sent right after the step, for the id
\* the step's response carries
FetchedAfter == getBook(booksFile', numberToString(res'.body.id))

\* what a step must satisfy for C5_RoundTripExact
C5_FetchedEqualsSubmitted ==
    Served("POST /api/books") /\ res'.status = 201
        => /\ FetchedAfter.status = 200
           /\ \A f \in InputFields \cap DOMAIN req'.body :
                 FetchedAfter.body[f] = req'.body[f]

\* C5: for every candidate accepted by create (201), a GET /api/books/:id
\* with the returned id that follows immediately returns a record whose
\* title, author, genre, year, description and isbn equal the submitted ones.
C5_RoundTripExact == [][C5_FetchedEqualsSubmitted]_vars

\* what a step must satisfy for C5_RoundTripNormalised
C5_FetchedEqualsNormalised ==
    Served("POST /api/books") /\ res'.status = 201
        => LET sent == req'.body
               got == FetchedAfter.body
               given(f) == Has(sent, f) /\ sent[f] # <<>>
           IN  /\ FetchedAfter.status = 200
               /\ got = res'.body
               /\ DOMAIN got = InputFields \cup {"id", "createdAt", "updatedAt"}
               /\ IsTrimOf(got.title, sent.title)
               /\ IsTrimOf(got.author, sent.author)
               /\ IF given("description")
                  THEN IsTrimOf(got.description, sent.description)
                  ELSE got.description = <<>>
               /\ IF given("isbn") THEN IsTrimOf(got.isbn, sent.isbn)
                  ELSE got.isbn = <<>>
               /\ IF given("genre") THEN got.genre = sent.genre
                  ELSE got.genre = <<"O","t","h","e","r">>
               /\ IF Has(sent, "year") /\ sent.year \notin {0, Null}
                  THEN got.year = sent.year ELSE got.year = Null
               /\ got.createdAt = now
               /\ got.updatedAt = now

\* C5 as amended: the record fetched has exactly the six input fields and
\* id, createdAt, updatedAt; title and author are the submitted ones with
\* surrounding white space removed, and so are description and isbn, which
\* are '' when not submitted; genre is the submitted one, or 'Other' when it
\* is missing or empty; year is the submitted one, or null when it is
\* missing, null or 0.
C5_RoundTripNormalised == [][C5_FetchedEqualsNormalised]_vars

\* a book was created from a body whose title, description and isbn carry
\* surrounding white space
C5_Witness ==
    /\ req.op = "POST /api/books"
    /\ res.status = 201
    /\ Has(req.body, "isbn")
    /\ req.body.title # res.body.title
    /\ req.body.description # res.body.description
    /\ req.body.isbn # res.body.isbn
    /\ res.body.genre = req.body.genre
    /\ \E i \in 1..Len(booksFile) : booksFile[i] = res.body

\* some book read by the handler has the title and author of the request
\* body, compared case-insensitively
BodyMatchesStored ==
    /\ Has(req'.body, "title")
    /\ Has(req'.body, "author")
    /\ \E i \in 1..Len(booksFile) : SamePair(booksFile[i], req'.body)

\* what a step must satisfy for C6_DuplicateCreateRejected
C6_DuplicateRejected ==
    Served("POST /api/books") /\ BodyMatchesStored
        => /\ res' = [status |-> 400, body |-> [error |-> DuplicateMessage]]
           /\ booksFile' = booksFile

\* C6: a create request whose (title, author) equals, case-insensitively,
\* that of a book of the collection is rejected with the 400 duplicate
\* error, and the file is left as it was.
C6_DuplicateCreateRejected == [][C6_DuplicateRejected]_vars

\* what a step must satisfy for C6_ValidDuplicateCreateRejected
C6_ValidDuplicateRejected ==
    /\ Served("POST /api/books")
    /\ BodyMatchesStored
    /\ validateBook(req'.body) = <<>>
    => /\ res' = [status |-> 400, body |-> [error |-> DuplicateMessage]]
       /\ booksFile' = booksFile

\* C6 as amended: a create request that passes validation and whose
\* (title, author) equals, case-insensitively, that of a book of the
\* collection is rejected with the 400 duplicate error, and the file is left
\* as it was.
C6_ValidDuplicateCreateRejected == [][C6_ValidDuplicateRejected]_vars

\* a create was rejected as a duplicate of a stored book whose author is
\* written in another letter case
C6_Witness ==
    /\ req.op = "POST /api/books"
    /\ res = [status |-> 400, body |-> [error |-> DuplicateMessage]]
    /\ \E i \in 1..Len(booksFile) :
          /\ SamePair(booksFile[i], req.body)
          /\ booksFile[i].author # req.body.author

\* the position in the file of the book a request names by its :id, 0 when
\* no book has that id
TargetIndex ==
    LET ids == {id \in Ids(booksFile) : numberToString(id) = req'.id}
    IN  IF ids = {} THEN 0
        ELSE CHOOSE i \in 1..Len(booksFile) : booksFile[i].id \in ids

\* what a step must satisfy for C7_UpdateKeepsIdAndCreatedAt
C7_UpdateFrame ==
    Served("PUT /api/books/:id") /\ res'.status = 200
        => /\ TargetIndex # 0
           /\ Len(booksFile') = Len(booksFile)
           /\ \A i \in 1..Len(booksFile) :
                 i # TargetIndex => booksFile'[i] = booksFile[i]
           /\ booksFile'[TargetIndex].id = booksFile[TargetIndex].id
           /\ booksFile'[TargetIndex].createdAt =
                 booksFile[TargetIndex].createdAt
           /\ booksFile'[TargetIndex].updatedAt = now
           /\ res'.body = booksFile'[TargetIndex]

\* C7: a successful update (200) leaves the id and createdAt of the target
\* as they were, whatever the body holds (an id or a createdAt included),
\* leaves every other book as it was, and sets the target's updatedAt to the
\* time of the update.
C7_UpdateKeepsIdAndCreatedAt == [][C7_UpdateFrame]_vars

\* a book was updated, later than it was created, by a body that holds
\* another id and another createdAt
C7_Witness ==
    /\ req.op = "PUT /api/books/:id"
    /\ res.status = 200
    /\ Has(req.body, "id")
    /\ req.body.id # res.body.id
    /\ req.body.createdAt # res.body.createdAt
    /\ res.body.updatedAt # res.body.createdAt
    /\ Len(booksFile) > 1

\* what a step must satisfy for C8_UpdateExcludesItself
C8_DuplicateCheckOnUpdate ==
    /\ Served("PUT /api/books/:id")
    /\ TargetIndex # 0
    /\ validateBook(req'.body) = <<>>
    => /\ SamePair(booksFile[TargetIndex], req'.body)
             => res'.status = 200
       /\ (\E i \in 1..Len(booksFile) :
              i # TargetIndex /\ SamePair(booksFile[i], req'.body))
             => res'.status = 400 /\ booksFile' = booksFile

\* C8: a valid update of an existing book that keeps its title and author,
\* or changes only their letter case, is never rejected as a duplicate; an
\* update that takes the (title, author) of another existing book, compared
\* case-insensitively, is rejected with 400 and leaves the file as it was.
C8_UpdateExcludesItself == [][C8_DuplicateCheckOnUpdate]_vars

\* what a step must satisfy for C9_DeleteRemovesExactlyOne
C9_DeleteEffect ==
    /\ Served("DELETE /api/books/:id")
          => IF TargetIndex = 0
             THEN res'.status = 404 /\ booksFile' = booksFile
             ELSE LET gone == booksFile[TargetIndex]
                  IN  /\ res'.status = 200
                      /\ res'.body.book = gone
                      /\ Len(booksFile') = Len(booksFile) - 1
                      /\ \A i \in 1..Len(booksFile') :
                            booksFile'[i] =
                               booksFile[IF i < TargetIndex THEN i ELSE i + 1]
                      /\ \A query \in QueryInputs :
                            LET listed == getBooks(booksFile', query).body.books
                            IN  \A k \in 1..Len(listed) : listed[k] # gone
    /\ /\ req.op = "DELETE /api/books/:id"
       /\ res.status = 200
       /\ Served("GET /api/books")
       => \A k \in 1..Len(res'.body.books) :
             res'.body.books[k] # res.body.book

\* C9: DELETE /api/books/:id on an id no book has returns 404 and leaves
\* the file as it was; on an existing id it returns 200 with the deleted
\* book and removes that book only, the others keeping their order, and the
\* book is in no result of a GET /api/books that follows.
C9_DeleteRemovesExactlyOne == [][C9_DeleteEffect]_vars

\* a book between two others was deleted
C9_Witness ==
    /\ req.op = "DELETE /api/books/:id"
    /\ res.status = 200
    /\ \E i \in 1..(Len(booksFile) - 1) :
          /\ booksFile[i].id < res.body.book.id
          /\ res.body.book.id < booksFile[i + 1].id

\* what the claim calls non-empty, in range and well-formed
NonBlank(book, f) ==
    /\ Has(book, f)
    /\ \E i \in 1..Len(book[f]) : book[f][i] \notin WhiteSpace

YearInRange(book) == 1000 <= book.year /\ book.year <= CurrentYear

IsbnWellFormed(book) ==
    LET kept == {i \in 1..Len(book.isbn) :
                    book.isbn[i] \notin WhiteSpace \cup {"-"}}
    IN  /\ Cardinality(kept) \in 10..17
        /\ \A i \in kept : book.isbn[i] \in Digits

Validated == req.op = "validateBook" /\ res # NoResponse

\* C10: validateBook returns no error if and only if title and author are
\* non-empty (not white space only), year, if present, lies in
\* [1000, currentYear], and isbn, if present, has 10 to 17 digits once white
\* space and hyphens are removed; every present year counts, 0 and negative
\* numbers included.
C10_ValidIffEveryPresentYear ==
    Validated =>
        LET book == req.body
        IN  res.body.errors = <<>>
            <=> /\ NonBlank(book, "title")
                /\ NonBlank(book, "author")
                /\ Has(book, "year") /\ book.year # Null => YearInRange(book)
                /\ Has(book, "isbn") /\ book.isbn # <<>>
                      => IsbnWellFormed(book)

\* C10 as amended: the same, where a year of 0 counts as no year.
C10_ValidIffNonZeroYear ==
    Validated =>
        LET book == req.body
        IN  res.body.errors = <<>>
            <=> /\ NonBlank(book, "title")
                /\ NonBlank(book, "author")
                /\ Has(book, "year") /\ book.year \notin {Null, 0}
                      => YearInRange(book)
                /\ Has(book, "isbn") /\ book.isbn # <<>>
                      => IsbnWellFormed(book)

\* a candidate with a year and a hyphenated isbn was found valid
C10_Witness ==
    /\ Validated
    /\ res.body.errors = <<>>
    /\ Has(req.body, "year")
    /\ req.body.year = 1000
    /\ Has(req.body, "isbn")
    /\ \E i \in 1..Len(req.body.isbn) : req.body.isbn[i] = "-"

(***************************************************************************)
(* POST /api/books/bulk on its own: one batch is sent to the server.       *)
(***************************************************************************)
\* number of candidates in a batch
MaxBatch == 3

\* candidates: a new book, the same with a trailing blank in the title, the
\* same title in upper case, the seeded book 2 in another letter case, a
\* candidate without title
BatchCandidates ==
    {BulkBookA,
     BulkBookB,
     [title |-> <<"D","U","N","E">>, author |-> StrOrwell],
     [title |-> Str1984,
      author |-> <<"g","e","o","r","g","e"," ","o","r","w","e","l","l">>],
     BulkBookInvalid}

BatchInputs ==
    {NoFields} \cup
    {[books |-> bs] :
        bs \in UNION {[1..n -> BatchCandidates] : n \in 0..MaxBatch}}

SendBatch(body) ==
    /\ nreq = 0
    /\ BulkCreate(body)

NextBulk == \E body \in BatchInputs : SendBatch(body)

SpecBulk == Init /\ [][NextBulk]_vars

\* the indexes the errors of a bulk response are tagged with
ErrorIndexes(results) ==
    {results.errors[k].index : k \in 1..Len(results.errors)}

\* what a bulk-create step must satisfy for C11_BulkPerIndex
C11_BulkOutcome ==
    Served("POST /api/books/bulk") /\ Has(req'.body, "books")
        => LET booksData == req'.body.books
               n == Len(booksData)
               results == res'.body
               rejected == ErrorIndexes(results)
               accepted == (0..(n - 1)) \ rejected
               duplicateOf(i) ==
                   \/ \E k \in 1..Len(booksFile) :
                         SamePair(booksFile[k], booksData[i + 1])
                   \/ \E j \in accepted :
                         j < i /\ SamePair(booksData[j + 1], booksData[i + 1])
           IN  /\ res'.status = 201
               /\ rejected \subseteq 0..(n - 1)
               /\ Cardinality(rejected) = Len(results.errors)
               /\ Len(results.success) + Len(results.errors) = n
               /\ \A i \in 0..(n - 1) :
                     validateBook(booksData[i + 1]) = <<>> /\ duplicateOf(i)
                        => \E k \in 1..Len(results.errors) :
                              results.errors[k] =
                                 [index |-> i, errors |-> <<DuplicateMessage>>]
               /\ \A k, m \in 1..Len(results.success) :
                     k # m => results.success[k].id # results.success[m].id
               /\ \A k \in 1..Len(results.success) :
                     \A id \in Ids(booksFile) : id < results.success[k].id

\* C11: in a bulk create of n candidates every index 0..n-1 is reported
\* once, as an error tagged with the index or as one created book
\* (|success| + |errors| = n); a candidate is rejected as a duplicate when
\* its (title, author) matches, case-insensitively, a stored book or an
\* earlier accepted candidate of the batch; the created books get pairwise
\* distinct ids greater than every id present before the batch.
C11_BulkPerIndex == [][C11_BulkOutcome]_vars

(***************************************************************************)
(* GET /api/books on its own: one query is sent to the server, whose file  *)
(* holds the seed or what deletes have left of it.                         *)
(***************************************************************************)
\* limit and offset run from 0 to MaxPage
MaxPage == 5

PageNumberInputs ==
    {numberToString(n) : n \in 0..MaxPage} \cup {<<"0", "2">>}

FilterInputs ==
    {NoFields,
     [genre |-> StrFiction],
     [search |-> <<"O","R","W">>],
     [search |-> <<"a">>, author |-> <<"E">>]}

LimitInputs == {NoFields} \cup {[limit |-> l] : l \in PageNumberInputs}

OffsetInputs == {NoFields} \cup {[offset |-> o] : o \in PageNumberInputs}

PageQueryInputs ==
    {f @@ l @@ o : f \in FilterInputs, l \in LimitInputs, o \in OffsetInputs}

InitQuery ==
    /\ \E keep \in SUBSET (1..4) :
          /\ booksFile = SelectSeq(sampleBooks(0), LAMBDA b : b.id \in keep)
          /\ deletedIds = (1..4) \ keep
    /\ fileOk = TRUE
    /\ now = 0
    /\ nreq = 0
    /\ req = NoRequest
    /\ res = NoResponse
    /\ inflight = <<>>

SendQuery(query) ==
    /\ nreq = 0
    /\ GetBooks(query)

NextQuery == \E query \in PageQueryInputs : SendQuery(query)

SpecQuery == InitQuery /\ [][NextQuery]_vars

\* the decimal value of a string of digits, leading zeros allowed
IsNumber(s, n) ==
    \E zeros \in 0..(Len(s) - 1) :
        /\ \A k \in 1..zeros : s[k] = "0"
        /\ SubSeq(s, zeros + 1, Len(s)) = numberToString(n)

\* what a GET /api/books step must satisfy for C12_Pagination
C12_Page ==
    Served("GET /api/books")
        => LET query == req'.query
               filtered == filterBooks(booksFile, query)
               N == Len(filtered)
               page == res'.body.books
           IN  /\ res'.status = 200
               /\ res'.body.total = N
               /\ res'.body.count = Len(page)
               /\ ~Has(query, "limit") => page = filtered
               /\ \A L, O \in 0..(MaxPage + 1) :
                     /\ Has(query, "limit")
                     /\ IsNumber(query.limit, L)
                     /\ IF Has(query, "offset") THEN IsNumber(query.offset, O)
                        ELSE O = 0
                     => LET rest == IF N - O > 0 THEN N - O ELSE 0
                        IN  /\ Len(page) = IF L < rest THEN L ELSE rest
                            /\ \A k \in 1..Len(page) : page[k] = filtered[O + k]

\* C12: for GET /api/books whose filtered result has N books, with limit=L
\* and offset=O given as non-negative integers (limit=0 counts as given),
\* the response holds min(L, max(0, N-O)) books, the positions O..O+L-1 of
\* the filtered sequence in order; total is N and count the number of books
\* returned; without limit all N filtered books are returned, whatever the
\* offset.
C12_Pagination == [][C12_Page]_vars

\* a page that starts after the first filtered book and ends before the last
C12_Witness ==
    /\ req.op = "GET /api/books"
    /\ Has(req.query, "limit")
    /\ Has(req.query, "offset")
    /\ res.body.count = 2
    /\ res.body.total = 4
    /\ res.body.books[1] = booksFile[2]

(***************************************************************************)
(* The server with a books.json that can be damaged between two requests:  *)
(* from then on readFile or JSON.parse throws in readBooks, until a        *)
(* handler writes the file again.                                          *)
(***************************************************************************)
CorruptFile ==
    /\ fileOk
    /\ nreq < MaxRequests
    /\ fileOk' = FALSE
    /\ UNCHANGED <<booksFile, now, nreq, req, res, deletedIds, inflight>>

NextIO ==
    \/ Next
    \/ CorruptFile

SpecIO == Init /\ [][NextIO]_vars

\* the request served by the step gets as far as its call of readBooks
ReadsFile ==
    /\ nreq' = nreq + 1
    /\ req'.op \in {"POST /api/books", "PUT /api/books/:id"}
          => validateBook(req'.body) = <<>>
    /\ req'.op = "POST /api/books/bulk" => Has(req'.body, "books")

\* what a step must satisfy for C13_ReadFailureIs500
C13_FailedReadAnswered500 ==
    ReadsFile /\ ~fileOk
        => /\ res'.status = 500
           /\ booksFile' = booksFile
           /\ fileOk' = fileOk

\* C13: a request during which reading or parsing books.json fails is
\* answered 500 and does not modify the file; in particular a create sent
\* while the file does not parse does not overwrite it.
C13_ReadFailureIs500 == [][C13_FailedReadAnswered500]_vars

(***************************************************************************)
(* The browser client (BookCatalogue.filterBooks) next to the server's     *)
(* GET /api/books, on one collection.                                      *)
(***************************************************************************)
\* String.prototype.localeCompare: characters compare by their place in the
\* collation order, letters first without regard to case; strings equal up
\* to case are ordered lower case first
CollationOrder ==
    <<" ", "\t", "\n", "-", ".", "0", "1", "2", "3", "4", "5", "6", "7", "8",
      "9">> \o LowerCase

CollationWeight(c) ==
    LET l == toLowerCase(<<c>>)[1]
    IN  IF \E k \in 1..Len(CollationOrder) : CollationOrder[k] = l
        THEN CHOOSE k \in 1..Len(CollationOrder) : CollationOrder[k] = l
        ELSE Len(CollationOrder) + 1

\* negative, zero or positive, as the comparator of a sort
RECURSIVE compareWeights(_, _)
compareWeights(a, b) ==
    IF a = <<>> /\ b = <<>> THEN 0
    ELSE IF a = <<>> THEN -1
    ELSE IF b = <<>> THEN 1
    ELSE IF CollationWeight(a[1]) # CollationWeight(b[1])
    THEN CollationWeight(a[1]) - CollationWeight(b[1])
    ELSE compareWeights(Tail(a), Tail(b))

RECURSIVE compareCase(_, _)
compareCase(a, b) ==
    IF a = <<>> \/ b = <<>> THEN 0
    ELSE IF a[1] = b[1] THEN compareCase(Tail(a), Tail(b))
    ELSE IF toLowerCase(<<a[1]>>)[1] = a[1] THEN -1
    ELSE 1

localeCompare(a, b) ==
    IF compareWeights(a, b) # 0 THEN compareWeights(a, b)
    ELSE compareCase(a, b)

\* the comparator of filteredBooks.sort
compareBooks(a, b, sortBy) ==
    LET yearOrZero(book) == IF book.year = Null THEN 0 ELSE book.year
    IN  CASE sortBy = "author" -> localeCompare(a.author, b.author)
          [] sortBy = "year" -> yearOrZero(a) - yearOrZero(b)
          [] sortBy = "newest" -> yearOrZero(b) - yearOrZero(a)
          [] OTHER -> localeCompare(a.title, b.title)

\* Array.prototype.sort, which is stable: each book goes behind the books
\* that do not compare greater
RECURSIVE sortBooks(_, _)
sortBooks(books, sortBy) ==
    IF books = <<>> THEN <<>>
    ELSE LET sorted == sortBooks(SubSeq(books, 1, Len(books) - 1), sortBy)
             book == books[Len(books)]
             before == {k \in 1..Len(sorted) :
                           compareBooks(sorted[k], book, sortBy) <= 0}
             at == IF before = {} THEN 0 ELSE SetMax(before)
         IN  SubSeq(sorted, 1, at) \o <<book>>
                 \o SubSeq(sorted, at + 1, Len(sorted))

\* the filter callback of filterBooks
clientMatches(book, searchTerm, genreFilter, yearFilter) ==
    LET inSearch == \/ includes(toLowerCase(book.title), searchTerm)
                    \/ includes(toLowerCase(book.author), searchTerm)
                    \/ includes(toLowerCase(book.genre), searchTerm)
        inGenre == genreFilter = <<>> \/ book.genre = genreFilter
        inYear == yearFilter = <<>> \/ numberToString(book.year) = yearFilter
    IN  inSearch /\ inGenre /\ inYear

\* BookCatalogue.filterBooks: the books handed to displayBooks; a book with
\* a null year makes book.year.toString() throw when a year filter is set,
\* and nothing is displayed anew
clientFilterBooks(books, searchInput, genreFilter, yearFilter, sortBy) ==
    LET searchTerm == toLowerCase(searchInput)
    IN  IF yearFilter # <<>> /\ \E i \in 1..Len(books) : books[i].year = Null
        THEN [threw |-> TRUE, books |-> <<>>]
        ELSE [threw |-> FALSE,
              books |-> sortBooks(
                  SelectSeq(books,
                      LAMBDA b : clientMatches(b, searchTerm, genreFilter,
                                               yearFilter)),
                  sortBy)]

SearchInputs ==
    {<<>>, <<"O","R","W">>, <<"d","y","s","t","o","p","i","a","n">>,
     <<"f","i","c","t","i","o","n">>, <<"z","z">>}

GenreInputs == {<<>>, StrFiction, <<"f","i","c","t","i","o","n">>}

YearInputs == {<<>>, <<"1","9","4","9">>}

SortInputs == {"title", "author", "year", "newest"}

\* the collections both sides filter: what is left of the seed, with or
\* without a book created without genre, year and description
SearchCollections ==
    {SelectSeq(sampleBooks(0), LAMBDA b : b.id \in keep) \o extra :
        keep \in SUBSET (1..4),
        extra \in {<<>>, <<newBook(sampleBooks(0), BulkBookA, 0)>>}}

InitSearch ==
    /\ booksFile \in SearchCollections
    /\ deletedIds = (1..4) \ Ids(booksFile)
    /\ fileOk = TRUE
    /\ now = 0
    /\ nreq = 0
    /\ req = NoRequest
    /\ res = NoResponse
    /\ inflight = <<>>

\* the query string the client's inputs make: empty inputs are left out
SearchQuery(search, genre) ==
    (IF search = <<>> THEN NoFields ELSE [search |-> search])
        @@ (IF genre = <<>> THEN NoFields ELSE [genre |-> genre])

ServerSearch(search, genre) ==
    /\ nreq = 0
    /\ GetBooks(SearchQuery(search, genre))

ClientFilter(searchInput, genreFilter, yearFilter, sortBy) ==
    /\ nreq = 0
    /\ nreq' = 1
    /\ req' = [op |-> "filterBooks", searchInput |-> searchInput,
               genreFilter |-> genreFilter, yearFilter |-> yearFilter,
               sortBy |-> sortBy]
    /\ res' = [status |-> 0,
               body |-> clientFilterBooks(booksFile, searchInput, genreFilter,
                                          yearFilter, sortBy)]
    /\ UNCHANGED <<booksFile, fileOk, now, deletedIds, inflight>>

NextSearch ==
    \/ \E search \in SearchInputs, genre \in GenreInputs :
          ServerSearch(search, genre)
    \/ \E search \in SearchInputs, genre \in GenreInputs,
          year \in YearInputs, sortBy \in SortInputs :
          ClientFilter(search, genre, year, sortBy)

SpecSearch == InitSearch /\ [][NextSearch]_vars

\* text contains term as a substring, letter case set aside
ContainsIgnoringCase(text, term) ==
    \E at \in 0..(Len(text) - Len(term)) :
        \A k \in 1..Len(term) :
            toLowerCase(<<text[at + k]>>) = toLowerCase(<<term[k]>>)

\* the books of the file the search term and the genre filter select
Selected(search, genre) ==
    {booksFile[i] : i \in
        {i \in 1..Len(booksFile) :
            /\ \/ ContainsIgnoringCase(booksFile[i].title, search)
               \/ ContainsIgnoringCase(booksFile[i].author, search)
               \/ ContainsIgnoringCase(booksFile[i].genre, search)
               \/ ContainsIgnoringCase(booksFile[i].description, search)
            /\ genre = <<>> \/ booksFile[i].genre = genre}}

Range(seq) == {seq[i] : i \in 1..Len(seq)}

\* what a step must satisfy for C14_SearchSelectsSameBooks
C14_BothSelectMatches ==
    /\ Served("GET /api/books")
          => LET search == IF Has(req'.query, "search") THEN req'.query.search
                           ELSE <<>>
                 genre == IF Has(req'.query, "genre") THEN req'.query.genre
                          ELSE <<>>
             IN  Range(res'.body.books) = Selected(search, genre)
    /\ Served("filterBooks") /\ req'.yearFilter = <<>>
          => /\ ~res'.body.threw
             /\ Range(res'.body.books) =
                   Selected(req'.searchInput, req'.genreFilter)
             /\ Range(res'.body.books) =
                   Range(getBooks(booksFile,
                             SearchQuery(req'.searchInput,
                                         req'.genreFilter)).body.books)

\* C14: for every collection and search term the search selects exactly the
\* books whose title, author, genre or description contains the term as a
\* case-insensitive substring, in the server's GET /api/books and in the
\* client's filterBooks alike: both select the same books for the same
\* collection, search term and genre filter.
C14_SearchSelectsSameBooks == [][C14_BothSelectMatches]_vars

(***************************************************************************)
(* Concurrent create, bulk-create, update and delete requests.  Every      *)
(* mutating handler has the same three steps: what it does before it calls *)
(* readBooks; the read and everything up to its call of writeBooks; the    *)
(* write of the whole file and the response.                               *)
(***************************************************************************)
IdleRequest ==
    [pc |-> "idle", op |-> "none", id |-> <<>>, body |-> NoFields,
     books |-> <<>>, res |-> NoResponse]

InterleavedInputs ==
    {[op |-> "POST /api/books", id |-> <<>>, body |-> BulkBookA],
     [op |-> "POST /api/books", id |-> <<>>,
      body |-> [title |-> <<"E","m","m","a">>, author |-> StrOrwell]],
     [op |-> "POST /api/books", id |-> <<>>, body |-> BulkBookInvalid],
     [op |-> "PUT /api/books/:id", id |-> <<"2">>,
      body |-> [title |-> StrDune, author |-> StrOrwell, id |-> 99]],
     [op |-> "DELETE /api/books/:id", id |-> <<"2">>, body |-> NoFields],
     [op |-> "POST /api/books/bulk", id |-> <<>>,
      body |-> [books |-> <<BulkBookA, BulkBookB>>]],
     [op |-> "POST /api/books/bulk", id |-> <<>>, body |-> NoFields]}

InitInterleaved ==
    /\ \E keep \in StartKeeps :
          /\ booksFile = SelectSeq(sampleBooks(0), LAMBDA b : b.id \in keep)
          /\ deletedIds = (1..4) \ keep
    /\ fileOk = TRUE
    /\ now = 0
    /\ nreq = 0
    /\ req = NoRequest
    /\ res = NoResponse
    /\ inflight = [c \in Clients |-> IdleRequest]

\* what the handler answers before it reads the file, if it does
earlyReply(request) ==
    LET validated == request.op \in {"POST /api/books", "PUT /api/books/:id"}
        errors == IF validated THEN validateBook(request.body) ELSE <<>>
    IN  IF Len(errors) > 0 THEN Invalid(errors)
        ELSE IF request.op = "POST /api/books/bulk"
                /\ ~Has(request.body, "books")
        THEN Reply(400, [error |-> "Books data must be an array"], FALSE, <<>>)
        ELSE Reply(0, NoFields, FALSE, <<>>)

\* the handler from the collection read to its call of writeBooks
handle(request, books, t) ==
    CASE request.op = "POST /api/books" -> createBook(books, request.body, t)
      [] request.op = "PUT /api/books/:id" ->
            updateBook(books, request.id, request.body, t)
      [] request.op = "DELETE /api/books/:id" -> deleteBook(books, request.id)
      [] request.op = "POST /api/books/bulk" ->
            bulkCreate(books, request.body.books, t)

BeginRequest(c, request) ==
    /\ inflight[c].pc = "idle"
    /\ LET early == earlyReply(request)
       IN  inflight' = [inflight EXCEPT ![c] =
               [pc |-> IF early.res.status # 0 THEN "done" ELSE "reading",
                op |-> request.op, id |-> request.id, body |-> request.body,
                books |-> <<>>, res |-> early.res]]
    /\ UNCHANGED <<booksFile, fileOk, now, nreq, req, res, deletedIds>>

ReadCollection(c) ==
    /\ inflight[c].pc = "reading"
    /\ LET out == handle(inflight[c], readBooks, now)
       IN  inflight' = [inflight EXCEPT ![c] =
               [@ EXCEPT !.pc = IF out.wrote THEN "writing" ELSE "done",
                         !.books = out.books, !.res = out.res]]
    /\ UNCHANGED <<booksFile, fileOk, now, nreq, req, res, deletedIds>>

\* a write that adds a created book to what the file holds at that moment
WriteCollectionMerging(c) ==
    /\ inflight[c].pc = "writing"
    /\ writeBooks(IF inflight[c].op = "POST /api/books"
                  THEN Append(readBooks, inflight[c].res.body)
                  ELSE inflight[c].books)
    /\ inflight' = [inflight EXCEPT ![c] = [@ EXCEPT !.pc = "done"]]
    /\ deletedIds' = IF inflight[c].op = "DELETE /api/books/:id"
                     THEN deletedIds \cup {inflight[c].res.body.book.id}
                     ELSE deletedIds
    /\ UNCHANGED <<now, nreq, req, res>>

WriteCollection(c) ==
    /\ inflight[c].pc = "writing"
    /\ writeBooks(inflight[c].books)
    /\ inflight' = [inflight EXCEPT ![c] = [@ EXCEPT !.pc = "done"]]
    /\ deletedIds' = IF inflight[c].op = "DELETE /api/books/:id"
                     THEN deletedIds \cup {inflight[c].res.body.book.id}
                     ELSE deletedIds
    /\ UNCHANGED <<now, nreq, req, res>>

NextInterleaved ==
    \/ \E c \in Clients, request \in InterleavedInputs :
          BeginRequest(c, request)
    \/ \E c \in Clients : ReadCollection(c)
    \/ \E c \in Clients : WriteCollection(c)
    \/ Tick

SpecInterleaved == InitInterleaved /\ [][NextInterleaved]_vars

\* C15: under any interleaving of concurrent create, bulk-create, update and
\* delete requests, each one read of the whole file followed later by one
\* write of the whole file, every collection ever held by the file has
\* pairwise distinct ids, also when two concurrent creates computed the same
\* id and returned it to their callers.
C15_PersistedIdsDistinct ==
    \A i, j \in 1..Len(booksFile) :
        booksFile[i].id = booksFile[j].id => i = j

\* two creates were answered 201 with the same id for different books, and
\* the file holds one book with that id
C15_Witness ==
    /\ inflight # <<>>
    /\ \E c, d \in Clients :
          /\ c # d
          /\ inflight[c].pc = "done"
          /\ inflight[d].pc = "done"
          /\ inflight[c].op = "POST /api/books"
          /\ inflight[d].op = "POST /api/books"
          /\ inflight[c].res.status = 201
          /\ inflight[d].res.status = 201
          /\ inflight[c].res.body.id = inflight[d].res.body.id
          /\ inflight[c].res.body.title # inflight[d].res.body.title
          /\ \E i \in 1..Len(booksFile) :
                booksFile[i].id = inflight[c].res.body.id

====
